---- MODULE Spec2Model ----
(***************************************************************************)
(* INI parser (package iniparser): the line classifier, the line decoders, *)
(* the document parser, the IniParser handle with its accessors and the    *)
(* serializer.                                                             *)
(*                                                                         *)
(* A Go string is a sequence of one-character strings.  The handle's field *)
(* i.sections is a record [nil, m]: nil says the map is the nil map, m is  *)
(* the map SectionName -> (Key -> value).                                  *)
(***************************************************************************)
EXTENDS Integers, Sequences, FiniteSets, TLC

VARIABLES sections, text, out, last, before, loaded, files

vars == <<sections, text, out, last, before, loaded, files>>

----------------------------------------------------------------------------
(* Bounds of the model. *)

\* most lines of an input text
MaxLines == 3

\* longest line handed to the classifier and the decoders on their own
MaxLineLen == 4

\* most spaces added at one place of a line
MaxPad == 1

----------------------------------------------------------------------------
(* Constants of the program. *)

sectionLine == "sectionLine"
propertyLine == "properityLine"
commentLine == "commentLine"
emptyLine == "emptyLine"
unsportedLine == "unsportedLine"

NoErr == "nil"
ErrNullReference == "ErrNullReference"
ErrSectionNotExist == "ErrSectionNotExist"
ErrKeyNotExist == "ErrKeyNotExist"
ErrHasNoData == "ErrHasNoData"
ErrGlobalProperity == "ErrGlobalProperity"
ErrEmptySectionName == "ErrEmptySectionName"
ErrSyntaxError == "ErrSyntaxError"
ErrEmptyKey == "ErrEmptyKey"
ErrInvalidFilePath == "ErrInvalidFilePath"

\* the *PathError os.Create returns
PathError == "PathError"

\* a run-time panic (index out of range): the call does not return
Panic == "panic"

----------------------------------------------------------------------------
(* package strings *)

RECURSIVE TrimLeft(_, _)
TrimLeft(s, cutset) ==
  IF s # <<>> /\ Head(s) \in cutset THEN TrimLeft(Tail(s), cutset) ELSE s

RECURSIVE TrimRight(_, _)
TrimRight(s, cutset) ==
  IF s # <<>> /\ s[Len(s)] \in cutset
    THEN TrimRight(SubSeq(s, 1, Len(s) - 1), cutset)
    ELSE s

TrimSpace(s) ==
  TrimRight(TrimLeft(s, {" ", "\t", "\n", "\r"}), {" ", "\t", "\n", "\r"})

Count(s, c) == Cardinality({i \in 1..Len(s) : s[i] = c})

\* 0-based index of the first c in s, -1 when there is none
Index(s, c) ==
  IF \E i \in 1..Len(s) : s[i] = c
    THEN (CHOOSE i \in 1..Len(s) : s[i] = c /\ \A j \in 1..(i - 1) : s[j] # c) - 1
    ELSE -1

\* strings.ReplaceAll(s, c, "")
RemoveAll(s, c) == LET keep(x) == x # c IN SelectSeq(s, keep)

\* Go's s[lo:hi], 0-based, hi exclusive
Slice(s, lo, hi) == SubSeq(s, lo + 1, hi)

RECURSIVE Join(_)
Join(ls) ==
  IF ls = <<>> THEN <<>>
  ELSE IF Len(ls) = 1 THEN ls[1]
  ELSE ls[1] \o <<"\n">> \o Join(Tail(ls))

----------------------------------------------------------------------------
(* package bufio: Scanner with the default split function ScanLines *)

dropCR(s) ==
  IF s # <<>> /\ s[Len(s)] = "\r" THEN SubSeq(s, 1, Len(s) - 1) ELSE s

RECURSIVE ScanLines(_)
ScanLines(data) ==
  IF data = <<>> THEN <<>>
  ELSE LET i == Index(data, "\n") IN
    IF i >= 0
      THEN <<dropCR(Slice(data, 0, i))>> \o ScanLines(Slice(data, i + 1, Len(data)))
      ELSE <<dropCR(data)>>

----------------------------------------------------------------------------
(* The line classifier. *)

isEmptyLine(line) == Len(line) = 0

\* isSection reads line[0] of the trimmed line: index out of range when the
\* trimmed line is empty
isSectionPanics(line) == Len(TrimSpace(line)) = 0

isSection(line) ==
  LET t == TrimSpace(line) IN
    t[1] = "[" /\ t[Len(t)] = "]" /\ Count(t, "[") = 1 /\ Count(t, "]") = 1

isProperity(line) == Count(line, "=") = 1

isComment(line) == line[1] = ";"

lineType(line) ==
  IF isEmptyLine(line) THEN emptyLine
  ELSE IF isSectionPanics(line) THEN Panic
  ELSE IF isSection(line) THEN sectionLine
  ELSE IF isProperity(line) THEN propertyLine
  ELSE IF isComment(line) THEN commentLine
  ELSE unsportedLine

----------------------------------------------------------------------------
(* The line decoders. *)

parseSection(line) ==
  IF Len(line) = 2 THEN [name |-> <<>>, err |-> ErrEmptySectionName]
  ELSE
    LET sl == RemoveAll(line, " ")
        name == TrimRight(TrimLeft(Slice(sl, 1, Len(sl) - 1), {" ", "["}), {" ", "]"})
    IN IF Len(sl) = 2 THEN [name |-> <<>>, err |-> ErrEmptySectionName]
       ELSE [name |-> name, err |-> NoErr]

parseProperity(property) ==
  LET sepIdx == Index(property, "=")
      key == Slice(property, 0, sepIdx)
  IN IF Len(key) = 0 THEN [key |-> <<>>, value |-> <<>>, err |-> ErrEmptyKey]
     ELSE [key |-> TrimSpace(key),
           value |-> TrimSpace(Slice(property, sepIdx + 1, Len(property))),
           err |-> NoErr]

----------------------------------------------------------------------------
(* The document: map[SectionName]Section, Section = map[Key]string. *)

EmptyMap == [x \in {} |-> <<>>]

Put(m, k, v) == [x \in DOMAIN m \cup {k} |-> IF x = k THEN v ELSE m[x]]

\* IniParser{}: the sections field is the nil map
NilSections == [nil |-> TRUE, m |-> EmptyMap]

\* New(): &IniParser{map[SectionName]Section{}}
New == [nil |-> FALSE, m |-> EmptyMap]

----------------------------------------------------------------------------
(* The document parser. *)

\* parseSectionLine keeping the entry of a section the Document already has
parseSectionLine_Keep(st, line) ==
  LET r == parseSection(line) IN
    IF r.err # NoErr THEN [st EXCEPT !.err = r.err]
    ELSE IF r.name \in DOMAIN st.m THEN [st EXCEPT !.cur = r.name]
    ELSE [m |-> Put(st.m, r.name, EmptyMap), cur |-> r.name, err |-> NoErr]

\* the case sectionLine of parse's switch
parseSectionLine(st, line) ==
  LET r == parseSection(line) IN
    IF r.err # NoErr THEN [st EXCEPT !.err = r.err]
    ELSE [m |-> Put(st.m, r.name, EmptyMap), cur |-> r.name, err |-> NoErr]

\* parseProperityLine keeping the value a key already has
parseProperityLine_FirstWins(st, line) ==
  LET r == parseProperity(line) IN
    IF r.err # NoErr THEN [st EXCEPT !.err = r.err]
    ELSE IF st.cur = <<>> THEN [st EXCEPT !.err = ErrGlobalProperity]
    ELSE IF r.key \in DOMAIN st.m[st.cur] THEN st
    ELSE [st EXCEPT !.m = Put(st.m, st.cur, Put(st.m[st.cur], r.key, r.value))]

\* parseProperityLine without the global-property check: the property goes
\* to a section created for it
parseProperityLine_Global(st, line) ==
  LET r == parseProperity(line)
      sec == IF st.cur \in DOMAIN st.m THEN st.m[st.cur] ELSE EmptyMap
  IN IF r.err # NoErr THEN [st EXCEPT !.err = r.err]
     ELSE [st EXCEPT !.m = Put(st.m, st.cur, Put(sec, r.key, r.value))]

\* the case propertyLine of parse's switch
parseProperityLine(st, line) ==
  LET r == parseProperity(line) IN
    IF r.err # NoErr THEN [st EXCEPT !.err = r.err]
    ELSE IF st.cur = <<>> THEN [st EXCEPT !.err = ErrGlobalProperity]
    ELSE [st EXCEPT !.m = Put(st.m, st.cur, Put(st.m[st.cur], r.key, r.value))]

\* parseLine with a comment or blank line closing the current section
parseLine_SkipCloses(st, line) ==
  LET lt == lineType(line) IN
    CASE lt = sectionLine -> parseSectionLine(st, line)
      [] lt = propertyLine -> parseProperityLine(st, line)
      [] lt = commentLine -> [st EXCEPT !.cur = <<>>]
      [] lt = emptyLine -> [st EXCEPT !.cur = <<>>]
      [] lt = unsportedLine -> [st EXCEPT !.err = ErrSyntaxError]
      [] lt = Panic -> [st EXCEPT !.err = Panic]

\* one iteration of parse's loop
parseLine(st, line) ==
  LET lt == lineType(line) IN
    CASE lt = sectionLine -> parseSectionLine(st, line)
      [] lt = propertyLine -> parseProperityLine(st, line)
      [] lt = commentLine -> st
      [] lt = emptyLine -> st
      [] lt = unsportedLine -> [st EXCEPT !.err = ErrSyntaxError]
      [] lt = Panic -> [st EXCEPT !.err = Panic]

\* parseLines going on after an error: the first error is kept, later lines
\* are still applied
RECURSIVE parseLines_Continue(_, _)
parseLines_Continue(st, lines) ==
  IF lines = <<>> THEN st
  ELSE LET nx == parseLine([st EXCEPT !.err = NoErr], Head(lines)) IN
    parseLines_Continue(
      [nx EXCEPT !.err = IF st.err # NoErr THEN st.err ELSE nx.err], Tail(lines))

\* parse's loop: it returns at the first error
RECURSIVE parseLines(_, _)
parseLines(st, lines) ==
  IF lines = <<>> \/ st.err # NoErr THEN st
  ELSE parseLines(parseLine(st, Head(lines)), Tail(lines))

parse(iniData) ==
  parseLines([m |-> EmptyMap, cur |-> <<>>, err |-> NoErr], ScanLines(iniData))

----------------------------------------------------------------------------
(* The serializer: Go ranges over a map in an unspecified order. *)

Perms(S) ==
  {f \in [1..Cardinality(S) -> S] : \A i, j \in 1..Cardinality(S) : f[i] = f[j] => i = j}

\* for every section an order of its keys
KeyOrders(m) ==
  {f \in [DOMAIN m -> UNION {Perms(DOMAIN m[s]) : s \in DOMAIN m}] :
     \A s \in DOMAIN m : f[s] \in Perms(DOMAIN m[s])}

\* fmt.Sprintf("%v = %s\n", name, value) for the keys of one section
RECURSIVE RenderKeys(_, _)
RenderKeys(sec, ks) ==
  IF ks = <<>> THEN <<>>
  ELSE Head(ks) \o <<" ", "=", " ">> \o sec[Head(ks)] \o <<"\n">>
       \o RenderKeys(sec, Tail(ks))

\* fmt.Sprintf("[%s]\n", SectionName) and the section's keys, section by section
RECURSIVE Render(_, _, _)
Render(m, so, ko) ==
  IF so = <<>> THEN <<>>
  ELSE <<"[">> \o Head(so) \o <<"]", "\n">> \o RenderKeys(m[Head(so)], ko[Head(so)])
       \o Render(m, Tail(so), ko)

----------------------------------------------------------------------------
(* Inputs. *)

\* the lines the parser's input texts are made of
InputLines ==
  { <<>>,
    <<"[", "a", "]">>,
    <<"[", " ", "b", " ", "]", " ">>,
    <<"\t", "[", "]">>,
    <<"[", " ", "]">>,
    <<"a", "=", "b">>,
    <<" ", "b", " ", "=", " ">>,
    <<"a", "=">>,
    <<" ", "=", "b">>,
    <<"=", "b">>,
    <<";", "a">>,
    <<"a", "]">>,
    <<" ">> }

\* the lines of the texts loaded before the accessors are called
ApiLines ==
  { <<"[", "a", "]">>,
    <<"[", " ", "b", " ", "]", " ">>,
    <<"a", "=", "b">>,
    <<" ", "b", " ", "=", " ">>,
    <<"a", "]">> }

\* the lines of the texts that are loaded as they are and edited
EditLines ==
  { <<"[", "a", "]">>,
    <<"\t", "[", "b", "]">>,
    <<"a", "=", "b">>,
    <<"b", "=">>,
    <<"=", "b">>,
    <<"a", "]">> }

\* the lines of the texts held by files
FileLines ==
  { <<"[", "a", "]">>,
    <<"\t", "[", "]">>,
    <<"a", "=", "b">>,
    <<"b", "=">>,
    <<"a", "]">>,
    <<" ">> }

\* lines that the parser skips
SkippedLines == {<<>>, <<";">>, <<";", "a">>}

TextsOf(lines) == {Join(ls) : ls \in UNION {[1..n -> lines] : n \in 0..MaxLines}}

\* the characters of the lines handed to the classifier on its own
LineChars == {" ", "\t", "[", "]", "=", ";", "a"}

Lines == UNION {[1..n -> LineChars] : n \in 0..MaxLineLen}

\* arguments of Get and Set
ArgSections == {<<"a">>, <<"b">>}
ArgKeys == {<<"a">>, <<"b">>}
ArgValues == {<<"c">>}

----------------------------------------------------------------------------
(* The handle and its operations. *)

NoCall == [op |-> "none", a |-> <<>>, from |-> "", ret |-> <<>>, err |-> NoErr]
NoOut == [has |-> FALSE, text |-> <<>>, err |-> NoErr, of |-> NilSections]
NotLoaded == [has |-> FALSE, m |-> EmptyMap, err |-> NoErr, returned |-> FALSE]

\* the files: the example file holds the input text, the out file is
\* written by SaveToFile, the invalid path lies in a directory that does
\* not exist
exampleFilePath == "example.ini"
outFilePath == "out_file.ini"
invalidFilePath == "invalid/file/path"
Paths == {exampleFilePath, outFilePath, invalidFilePath}

NoFile == [exists |-> FALSE, data |-> <<>>]
File(data) == [exists |-> TRUE, data |-> data]

\* a panic ends the program
Running == last.err # Panic

InitWith(texts, handles) ==
  /\ text \in texts
  /\ sections \in handles
  /\ out = NoOut
  /\ last = NoCall
  /\ before = sections
  /\ loaded = NotLoaded
  /\ files = [p \in Paths |-> IF p = exampleFilePath THEN File(text) ELSE NoFile]

\* what is kept of the loads so far: the result of the last load of the
\* caller's input text, and whether some LoadFromString has returned
Record(from, r) ==
  IF from = "text"
  THEN [has |-> TRUE, m |-> r.m, err |-> r.err,
        returned |-> loaded.returned \/ r.err # Panic]
  ELSE [loaded EXCEPT !.returned = @ \/ r.err # Panic]

\* LoadFromString of the older parser.go: a handle with the nil map is
\* refused
LoadFrom_NilCheck(from, iniData) ==
  LET r == IF sections.nil THEN [m |-> EmptyMap, err |-> ErrNullReference]
           ELSE parse(iniData)
  IN
    /\ sections' = IF r.err = Panic \/ sections.nil THEN sections
                   ELSE [nil |-> FALSE, m |-> r.m]
    /\ last' = [op |-> "LoadFromString", a |-> <<iniData>>, from |-> from,
                ret |-> <<>>, err |-> r.err]
    /\ before' = sections
    /\ loaded' = Record(from, r)
    /\ UNCHANGED <<files, text, out>>

\* a load that adds the parsed sections to the ones the handle holds
LoadFrom_Merge(from, iniData) ==
  LET r == parse(iniData)
      merged == [x \in DOMAIN sections.m \cup DOMAIN r.m |->
                   IF x \in DOMAIN r.m THEN r.m[x] ELSE sections.m[x]]
  IN
    /\ sections' = IF r.err = Panic THEN sections ELSE [nil |-> FALSE, m |-> merged]
    /\ last' = [op |-> "LoadFromString", a |-> <<iniData>>, from |-> from,
                ret |-> <<>>, err |-> r.err]
    /\ before' = sections
    /\ loaded' = Record(from, r)
    /\ UNCHANGED <<files, text, out>>

\* i.sections, err = parse(iniData); return err
LoadFrom(from, iniData) ==
  LET r == parse(iniData) IN
    /\ sections' = IF r.err = Panic THEN sections ELSE [nil |-> FALSE, m |-> r.m]
    /\ last' = [op |-> "LoadFromString", a |-> <<iniData>>, from |-> from,
                ret |-> <<>>, err |-> r.err]
    /\ before' = sections
    /\ loaded' = Record(from, r)
    /\ UNCHANGED <<files, text, out>>

\* LoadFromString of the caller's input text
LoadFromString ==
  /\ Running
  /\ LoadFrom("text", text)

\* LoadFromString of the text the last String() returned
Reload ==
  /\ Running
  /\ out.has
  /\ LoadFrom("out", out.text)

\* GetResult looking the key up before the section
GetResult_KeyFirst(s, sectionName, key) ==
  IF s.nil THEN [ret |-> <<>>, err |-> ErrNullReference]
  ELSE IF \A t \in DOMAIN s.m : key \notin DOMAIN s.m[t]
    THEN [ret |-> <<>>, err |-> ErrKeyNotExist]
  ELSE IF sectionName \notin DOMAIN s.m THEN [ret |-> <<>>, err |-> ErrSectionNotExist]
  ELSE IF key \notin DOMAIN s.m[sectionName] THEN [ret |-> <<>>, err |-> ErrKeyNotExist]
  ELSE [ret |-> s.m[sectionName][key], err |-> NoErr]

GetResult(s, sectionName, key) ==
  IF s.nil THEN [ret |-> <<>>, err |-> ErrNullReference]
  ELSE IF sectionName \notin DOMAIN s.m THEN [ret |-> <<>>, err |-> ErrSectionNotExist]
  ELSE IF key \notin DOMAIN s.m[sectionName] THEN [ret |-> <<>>, err |-> ErrKeyNotExist]
  ELSE [ret |-> s.m[sectionName][key], err |-> NoErr]

Get ==
  /\ Running
  /\ \E sectionName \in ArgSections, key \in ArgKeys :
       LET r == GetResult(sections, sectionName, key) IN
         last' = [op |-> "Get", a |-> <<sectionName, key>>, from |-> "",
                  ret |-> r.ret, err |-> r.err]
  /\ before' = sections
  /\ UNCHANGED <<files, sections, text, out, loaded>>

\* SetResult adding a missing key to an existing section
SetResult_Upsert(s, sectionName, key, value) ==
  IF s.nil THEN [s |-> s, err |-> ErrNullReference]
  ELSE IF sectionName \notin DOMAIN s.m THEN [s |-> s, err |-> ErrSectionNotExist]
  ELSE [s |-> [s EXCEPT !.m = Put(s.m, sectionName, Put(s.m[sectionName], key, value))],
        err |-> IF key \in DOMAIN s.m[sectionName] THEN NoErr ELSE ErrKeyNotExist]

\* SetResult replacing the section by one that holds the key alone
SetResult_Replace(s, sectionName, key, value) ==
  IF s.nil THEN [s |-> s, err |-> ErrNullReference]
  ELSE IF sectionName \notin DOMAIN s.m THEN [s |-> s, err |-> ErrSectionNotExist]
  ELSE IF key \notin DOMAIN s.m[sectionName] THEN [s |-> s, err |-> ErrKeyNotExist]
  ELSE [s |-> [s EXCEPT !.m = Put(s.m, sectionName, Put(EmptyMap, key, value))],
        err |-> NoErr]

SetResult(s, sectionName, key, value) ==
  IF s.nil THEN [s |-> s, err |-> ErrNullReference]
  ELSE IF sectionName \notin DOMAIN s.m THEN [s |-> s, err |-> ErrSectionNotExist]
  ELSE IF key \notin DOMAIN s.m[sectionName] THEN [s |-> s, err |-> ErrKeyNotExist]
  ELSE [s |-> [s EXCEPT !.m[sectionName][key] = value], err |-> NoErr]

Set ==
  /\ Running
  /\ \E sectionName \in ArgSections, key \in ArgKeys, value \in ArgValues :
       LET r == SetResult(sections, sectionName, key, value) IN
         /\ sections' = r.s
         /\ last' = [op |-> "Set", a |-> <<sectionName, key, value>>, from |-> "",
                     ret |-> <<>>, err |-> r.err]
  /\ before' = sections
  /\ UNCHANGED <<files, text, out, loaded>>

\* the byte of a character
Byte(c) ==
  CASE c = "\t" -> 9 [] c = "\n" -> 10 [] c = "\r" -> 13 [] c = " " -> 32
    [] c = ";" -> 59 [] c = "=" -> 61 [] c = "[" -> 91 [] c = "]" -> 93
    [] c = "a" -> 97 [] c = "b" -> 98 [] c = "c" -> 99

\* x < y on Go strings: byte by byte
RECURSIVE StrLess(_, _)
StrLess(x, y) ==
  IF y = <<>> THEN FALSE
  ELSE IF x = <<>> THEN TRUE
  ELSE IF Head(x) # Head(y) THEN Byte(Head(x)) < Byte(Head(y))
  ELSE StrLess(Tail(x), Tail(y))

RECURSIVE Insert(_, _)
Insert(sorted, x) ==
  IF sorted = <<>> THEN <<x>>
  ELSE IF StrLess(x, Head(sorted)) THEN <<x>> \o sorted
  ELSE <<Head(sorted)>> \o Insert(Tail(sorted), x)

\* sort.Strings
RECURSIVE SortStrings(_)
SortStrings(list) ==
  IF list = <<>> THEN <<>>
  ELSE Insert(SortStrings(Tail(list)), Head(list))

\* GetSectionNamesResults without the sort: the names in the order of the range
GetSectionNamesResults_Unsorted(s) == Perms(DOMAIN s.m)

\* the lists GetSectionNames() can return: the range over the map appends the
\* names in an unspecified order, sort.Strings sorts them
GetSectionNamesResults(s) == {SortStrings(order) : order \in Perms(DOMAIN s.m)}

GetSectionNames ==
  /\ Running
  /\ \E names \in GetSectionNamesResults(sections) :
       last' = [op |-> "GetSectionNames", a |-> <<>>, from |-> "",
                ret |-> names, err |-> NoErr]
  /\ before' = sections
  /\ UNCHANGED <<files, sections, text, out, loaded>>

\* StringResults taking a Document without properties for one without data
StringResults_NoKeys(s) ==
  IF s.nil THEN {[ret |-> <<>>, err |-> ErrNullReference]}
  ELSE IF \A t \in DOMAIN s.m : DOMAIN s.m[t] = {}
    THEN {[ret |-> <<>>, err |-> ErrHasNoData]}
  ELSE {[ret |-> Render(s.m, so, ko), err |-> NoErr] :
          so \in Perms(DOMAIN s.m), ko \in KeyOrders(s.m)}

\* the results String() can return
StringResults(s) ==
  IF s.nil THEN {[ret |-> <<>>, err |-> ErrNullReference]}
  ELSE IF Cardinality(DOMAIN s.m) = 0 THEN {[ret |-> <<>>, err |-> ErrHasNoData]}
  ELSE {[ret |-> Render(s.m, so, ko), err |-> NoErr] :
          so \in Perms(DOMAIN s.m), ko \in KeyOrders(s.m)}

String ==
  /\ Running
  /\ \E r \in StringResults(sections) :
       /\ last' = [op |-> "String", a |-> <<>>, from |-> "", ret |-> r.ret, err |-> r.err]
       /\ out' = [has |-> TRUE, text |-> r.ret, err |-> r.err, of |-> sections]
  /\ before' = sections
  /\ UNCHANGED <<files, sections, text, loaded>>

\* sections = i.sections; return
GetSections ==
  /\ Running
  /\ last' = [op |-> "GetSections", a |-> <<>>, from |-> "",
              ret |-> <<sections>>, err |-> NoErr]
  /\ before' = sections
  /\ UNCHANGED <<files, sections, text, out, loaded>>

\* LoadFromFile assigning the map before it looks at the error of the read
LoadFromFileResult_Clears(s, f) ==
  LET r == parse(f.data) IN
    [sections |-> IF r.err = Panic THEN s ELSE [nil |-> FALSE, m |-> r.m],
     ret |-> IF r.err = Panic \/ ~f.exists THEN <<>> ELSE f.data,
     err |-> IF ~f.exists THEN ErrInvalidFilePath ELSE r.err]

\* LoadFromFile of the older parser.go: the file is read and not parsed
LoadFromFileResult_NoParse(s, f) ==
  IF ~f.exists THEN [sections |-> s, ret |-> <<>>, err |-> ErrInvalidFilePath]
  ELSE [sections |-> s, ret |-> f.data, err |-> NoErr]

\* the handle's map, the text and the error after LoadFromFile of file f
LoadFromFileResult(s, f) ==
  IF ~f.exists THEN [sections |-> s, ret |-> <<>>, err |-> ErrInvalidFilePath]
  ELSE LET r == parse(f.data) IN
    [sections |-> IF r.err = Panic THEN s ELSE [nil |-> FALSE, m |-> r.m],
     ret |-> IF r.err = Panic THEN <<>> ELSE f.data,
     err |-> r.err]

LoadFromFile ==
  /\ Running
  /\ \E filePath \in Paths :
       LET r == LoadFromFileResult(sections, files[filePath]) IN
         /\ sections' = r.sections
         /\ last' = [op |-> "LoadFromFile", a |-> <<filePath>>, from |-> "",
                     ret |-> r.ret, err |-> r.err]
  /\ before' = sections
  /\ UNCHANGED <<files, text, out, loaded>>

\* os.Create fails when the directory of the path does not exist
CanCreate(filePath) == filePath # invalidFilePath

\* the file at filePath and the error after SaveToFile: the file is created
\* or truncated, then what String() returned is written to it
SaveToFileResults(s, fs, filePath) ==
  IF ~CanCreate(filePath) THEN {[files |-> fs, err |-> PathError]}
  ELSE {[files |-> [fs EXCEPT ![filePath] = File(r.ret)], err |-> r.err] :
          r \in StringResults(s)}

SaveToFile ==
  /\ Running
  /\ \E filePath \in Paths :
       \E r \in SaveToFileResults(sections, files, filePath) :
         /\ files' = r.files
         /\ last' = [op |-> "SaveToFile", a |-> <<filePath>>, from |-> "",
                     ret |-> <<>>, err |-> r.err]
  /\ before' = sections
  /\ UNCHANGED <<sections, text, out, loaded>>

----------------------------------------------------------------------------
(* The handle under its accessors: a zero-value handle or New(), a text    *)
(* loaded from ApiLines, and any sequence of calls.                        *)

Init == InitWith(TextsOf(ApiLines), {NilSections, New})

Next == LoadFromString \/ Reload \/ Get \/ Set \/ String \/ GetSectionNames

Spec == Init /\ [][Next]_vars

----------------------------------------------------------------------------
(* The parser and the serializer: New(), a text from InputLines, and any   *)
(* sequence of LoadFromString, String() and LoadFromString of its result.  *)

InitParse == InitWith(TextsOf(InputLines), {New})

NextParse == LoadFromString \/ String \/ Reload

SpecParse == InitParse /\ [][NextParse]_vars

----------------------------------------------------------------------------
(* The classifier and the decoders on a single line, as parse calls them.  *)

InitLine == InitWith(Lines, {New})

Classify ==
  /\ last.op = "none"
  /\ last' = [op |-> "lineType", a |-> <<text>>, from |-> "",
              ret |-> <<lineType(text)>>, err |-> NoErr]
  /\ UNCHANGED <<files, sections, text, out, before, loaded>>

DecodeSection ==
  /\ last.op = "lineType"
  /\ last.ret = <<sectionLine>>
  /\ LET r == parseSection(text) IN
       last' = [op |-> "parseSection", a |-> <<text>>, from |-> "",
                ret |-> <<r.name>>, err |-> r.err]
  /\ UNCHANGED <<files, sections, text, out, before, loaded>>

DecodeProperity ==
  /\ last.op = "lineType"
  /\ last.ret = <<propertyLine>>
  /\ LET r == parseProperity(text) IN
       last' = [op |-> "parseProperity", a |-> <<text>>, from |-> "",
                ret |-> <<r.key, r.value>>, err |-> r.err]
  /\ UNCHANGED <<files, sections, text, out, before, loaded>>

NextLine == Classify \/ DecodeSection \/ DecodeProperity

SpecLine == InitLine /\ [][NextLine]_vars

----------------------------------------------------------------------------
(* Edited inputs: the input text with spaces added to its header and       *)
(* property lines, or with a blank or comment line inserted, is loaded     *)
(* after or before the text itself.                                        *)

RECURSIVE Spaces(_)
Spaces(n) == IF n = 0 THEN <<>> ELSE <<" ">> \o Spaces(n - 1)

\* the places spaces are added at: before the line, after the '[' or before
\* the '=', before the ']' or after the '=', after the line
Paddings == [lead : 0..MaxPad, left : 0..MaxPad, right : 0..MaxPad, trail : 0..MaxPad]

PadLine(line, p) ==
  LET lt == lineType(line) IN
    IF lt = sectionLine THEN
      LET i == Index(line, "[")
          j == Index(line, "]")
      IN Spaces(p.lead) \o Slice(line, 0, i + 1) \o Spaces(p.left)
         \o Slice(line, i + 1, j) \o Spaces(p.right)
         \o Slice(line, j, Len(line)) \o Spaces(p.trail)
    ELSE IF lt = propertyLine THEN
      LET i == Index(line, "=")
      IN Spaces(p.lead) \o Slice(line, 0, i) \o Spaces(p.left) \o <<"=">>
         \o Spaces(p.right) \o Slice(line, i + 1, Len(line)) \o Spaces(p.trail)
    ELSE line

PadText(data, p) ==
  LET ls == ScanLines(data) IN Join([i \in 1..Len(ls) |-> PadLine(ls[i], p)])

\* the text with line c inserted after its first i lines
InsertLine(data, i, c) ==
  LET ls == ScanLines(data) IN
    Join(SubSeq(ls, 1, i) \o <<c>> \o SubSeq(ls, i + 1, Len(ls)))

\* an edited text is loaded first, or right after the text itself
BeforeEdit == last.op = "none" \/ last.from = "text"

LoadPadded ==
  /\ Running
  /\ BeforeEdit
  /\ \E p \in Paddings : LoadFrom("padded", PadText(text, p))

LoadInserted ==
  /\ Running
  /\ BeforeEdit
  /\ \E i \in 0..Len(ScanLines(text)), c \in SkippedLines :
       LoadFrom("inserted", InsertLine(text, i, c))

InitEdit == InitWith(TextsOf(EditLines), {New})

\* the text and the text with spaces added
NextPad == LoadFromString \/ LoadPadded

SpecPad == InitEdit /\ [][NextPad]_vars

\* the text and the text with a skipped line inserted
NextInsert == LoadFromString \/ LoadInserted

SpecInsert == InitEdit /\ [][NextInsert]_vars

----------------------------------------------------------------------------
(* The handle and the files: a zero-value handle or New(), the example     *)
(* file holding a text of FileLines, loads from the string and from files, *)
(* and saves to files.                                                     *)

InitFile == InitWith(TextsOf(FileLines), {NilSections, New})

NextFile == LoadFromString \/ LoadFromFile \/ SaveToFile

SpecFile == InitFile /\ [][NextFile]_vars

----------------------------------------------------------------------------
(* The handle under its queries: a zero-value handle or New(), loads from  *)
(* the string and from files, of which only the example file exists, Set,  *)
(* and the operations that read the Document.                              *)

NextQuery ==
  \/ LoadFromString
  \/ LoadFromFile
  \/ Set
  \/ Get
  \/ GetSections
  \/ GetSectionNames
  \/ String

SpecQuery == Init /\ [][NextQuery]_vars

----------------------------------------------------------------------------
(* What the lines of an input say, line by line, read off the text and not *)
(* off the parser's loop: the statements about LoadFromString compare the  *)
(* Document with it.                                                       *)

\* the lines of the text the last LoadFromString was given
LastLines == ScanLines(last.a[1])

IsHeader(ls, i) == lineType(ls[i]) = sectionLine
IsProperty(ls, i) == lineType(ls[i]) = propertyLine

Max(S) == CHOOSE x \in S : \A y \in S : y <= x
Min(S) == CHOOSE x \in S : \A y \in S : x <= y

\* the section-header lines before line n
HeadersBefore(ls, n) == {i \in 1..(n - 1) : IsHeader(ls, i)}

\* the name the nearest header before line n decodes to, "" when there is none
CurrentBefore(ls, n) ==
  IF HeadersBefore(ls, n) = {} THEN <<>>
  ELSE parseSection(ls[Max(HeadersBefore(ls, n))]).name

\* the error line n raises when the lines before it raised none
LineError(ls, n) ==
  LET lt == lineType(ls[n]) IN
    IF lt = Panic THEN Panic
    ELSE IF lt = unsportedLine THEN ErrSyntaxError
    ELSE IF lt = sectionLine THEN parseSection(ls[n]).err
    ELSE IF lt = propertyLine THEN
      IF parseProperity(ls[n]).err # NoErr THEN parseProperity(ls[n]).err
      ELSE IF CurrentBefore(ls, n) = <<>> THEN ErrGlobalProperity
      ELSE NoErr
    ELSE NoErr

Offending(ls) == {n \in 1..Len(ls) : LineError(ls, n) # NoErr}

\* the lines processed without error: all of them, or those before the first
\* offending line
Processed(ls) == IF Offending(ls) = {} THEN Len(ls) ELSE Min(Offending(ls)) - 1

\* the Document that lines 1..k describe
DocumentOf(ls, k) ==
  LET hdrs == HeadersBefore(ls, k + 1)
      names == {parseSection(ls[i]).name : i \in hdrs}
      lastHdr(s) == Max({i \in hdrs : parseSection(ls[i]).name = s})
      props(s) == {j \in (lastHdr(s) + 1)..k :
                     IsProperty(ls, j) /\ CurrentBefore(ls, j) = s}
      keys(s) == {parseProperity(ls[j]).key : j \in props(s)}
      lastProp(s, key) == Max({j \in props(s) : parseProperity(ls[j]).key = key})
  IN [s \in names |->
        [key \in keys(s) |-> parseProperity(ls[lastProp(s, key)]).value]]

Loaded == last.op = "LoadFromString"

----------------------------------------------------------------------------
(* C1 *)

\* the Document LoadFromString(text) left, when it returned no error
LoadedDocument == [nil |-> FALSE, m |-> loaded.m]
LoadedOk == loaded.has /\ loaded.err = NoErr

\* C1: for every text T that LoadFromString accepts, String() on the
\* Document it leaves returns no error, and LoadFromString of the returned
\* text returns no error and leaves a Document with the same sections, keys
\* and values.
C1_RoundTrip ==
  /\ (last.op = "String" /\ LoadedOk /\ before = LoadedDocument) =>
       last.err = NoErr
  /\ (Loaded /\ last.from = "out" /\ LoadedOk /\ out.of = LoadedDocument) =>
       (last.err = NoErr /\ sections = LoadedDocument)

----------------------------------------------------------------------------
(* C2 *)

\* C2: after a LoadFromString that returns no error, every key/value pair
\* of the Document comes from a property line that follows a header line
\* decoding to its section, and the input has no property line before its
\* first section header.
C2_PropertiesBelongToSections ==
  (Loaded /\ last.err = NoErr) =>
    LET ls == LastLines IN
      /\ \A s \in DOMAIN sections.m : \A key \in DOMAIN sections.m[s] :
           \E i, j \in 1..Len(ls) :
             /\ i < j
             /\ IsHeader(ls, i)
             /\ parseSection(ls[i]) = [name |-> s, err |-> NoErr]
             /\ IsProperty(ls, j)
             /\ parseProperity(ls[j]) =
                  [key |-> key, value |-> sections.m[s][key], err |-> NoErr]
      /\ \A j \in 1..Len(ls) : IsProperty(ls, j) => HeadersBefore(ls, j) # {}

\* a load without error that stored a property
C2_Witness ==
  /\ Loaded
  /\ last.err = NoErr
  /\ \E s \in DOMAIN sections.m : DOMAIN sections.m[s] # {}

----------------------------------------------------------------------------
(* C3 *)

\* C3: when LoadFromString returns an error, the error is the one of the
\* first offending line n, and the Document is the one lines 1..n-1
\* describe, with nothing of line n or of a later line.
C3_FailFast ==
  (Loaded /\ last.err \notin {NoErr, Panic}) =>
    LET ls == LastLines IN
      /\ Offending(ls) # {}
      /\ last.err = LineError(ls, Min(Offending(ls)))
      /\ sections = [nil |-> FALSE, m |-> DocumentOf(ls, Processed(ls))]

\* an error at a line that follows an accepted header and precedes a header
\* that would have been accepted
C3_Witness ==
  /\ Loaded
  /\ last.err \notin {NoErr, Panic}
  /\ DOMAIN sections.m # {}
  /\ LET ls == LastLines IN
       /\ Processed(ls) + 1 < Len(ls)
       /\ IsHeader(ls, Len(ls))
       /\ parseSection(ls[Len(ls)]).err = NoErr

----------------------------------------------------------------------------
(* C4 *)

\* the name of a section-header line as the specification decodes it: the
\* line without surrounding whitespace, without its brackets, and without
\* the whitespace inside the brackets
HeaderName(line) ==
  LET t == TrimSpace(line) IN TrimSpace(Slice(t, 1, Len(t) - 1))

\* C4: a section-header line whose name is empty once brackets and
\* surrounding spaces or tabs are removed makes LoadFromString return
\* EmptySectionName, and the Document never has a section named "".
C4_NoEmptySectionName ==
  Loaded =>
    LET ls == LastLines IN
      /\ <<>> \notin DOMAIN sections.m
      /\ \A n \in 1..Len(ls) :
           ( /\ \A i \in 1..(n - 1) : LineError(ls, i) = NoErr
             /\ IsHeader(ls, n)
             /\ HeaderName(ls[n]) = <<>> ) => last.err = ErrEmptySectionName

----------------------------------------------------------------------------
(* C5 *)

\* C5: a property line whose text before the '=' is empty after trimming
\* makes the property decoder fail with EmptyKey, and after any parse no
\* section of the Document has the key "".
C5_NoEmptyKey ==
  /\ last.op = "parseProperity" =>
       (TrimSpace(Slice(text, 0, Index(text, "="))) = <<>> => last.err = ErrEmptyKey)
  /\ Loaded => \A s \in DOMAIN sections.m : <<>> \notin DOMAIN sections.m[s]

----------------------------------------------------------------------------
(* C6 *)

\* the category of a line by the stated rules, taken in their order
StatedLineType(line) ==
  LET t == TrimSpace(line) IN
    IF Len(line) = 0 THEN emptyLine
    ELSE IF /\ Len(t) > 0
            /\ t[1] = "[" /\ t[Len(t)] = "]"
            /\ Count(t, "[") = 1 /\ Count(t, "]") = 1 THEN sectionLine
    ELSE IF Count(line, "=") = 1 THEN propertyLine
    ELSE IF line[1] = ";" THEN commentLine
    ELSE unsportedLine

\* C6: lineType returns, for every line, the category of the first stated
\* rule that matches.
C6_LineTypeTotal ==
  last.op = "lineType" => last.ret = <<StatedLineType(text)>>

----------------------------------------------------------------------------
(* C7 *)

\* C7: Get(section, key) returns NullReference on a nil map, else
\* SectionNotExist when the section is absent, else KeyNotExist when the
\* section lacks the key, each with the empty string, else the stored value
\* and no error.
C7_GetOutcome ==
  last.op = "Get" =>
    LET s == last.a[1]
        key == last.a[2]
    IN /\ before.nil => (last.err = ErrNullReference /\ last.ret = <<>>)
       /\ (~before.nil /\ s \notin DOMAIN before.m) =>
            (last.err = ErrSectionNotExist /\ last.ret = <<>>)
       /\ (~before.nil /\ s \in DOMAIN before.m /\ key \notin DOMAIN before.m[s]) =>
            (last.err = ErrKeyNotExist /\ last.ret = <<>>)
       /\ (~before.nil /\ s \in DOMAIN before.m /\ key \in DOMAIN before.m[s]) =>
            (last.err = NoErr /\ last.ret = before.m[s][key])

\* a Get that returned a stored, non-empty value
C7_Witness ==
  /\ last.op = "Get"
  /\ last.err = NoErr
  /\ last.ret # <<>>

----------------------------------------------------------------------------
(* C8 *)

SameNames(d, e) ==
  /\ d.nil = e.nil
  /\ DOMAIN d.m = DOMAIN e.m
  /\ \A s \in DOMAIN d.m : DOMAIN d.m[s] = DOMAIN e.m[s]

\* C8: Set never adds a section or a key; it fails with NullReference on a
\* nil map, SectionNotExist when the section is absent, KeyNotExist when the
\* section lacks the key, and a failing Set leaves the Document as it was.
C8_SetFailure ==
  last.op = "Set" =>
    LET s == last.a[1]
        key == last.a[2]
    IN /\ SameNames(sections, before)
       /\ before.nil => last.err = ErrNullReference
       /\ (~before.nil /\ s \notin DOMAIN before.m) => last.err = ErrSectionNotExist
       /\ (~before.nil /\ s \in DOMAIN before.m /\ key \notin DOMAIN before.m[s]) =>
            last.err = ErrKeyNotExist
       /\ last.err # NoErr => sections = before

\* a Set on a section that exists and lacks the key
C8_Witness ==
  /\ last.op = "Set"
  /\ last.err = ErrKeyNotExist
  /\ last.a[1] \in DOMAIN before.m
  /\ DOMAIN before.m[last.a[1]] # {}

----------------------------------------------------------------------------
(* C9 *)

\* C9: when section and key exist, Set(section, key, v) returns no error,
\* Get(section, key) then returns v, and every other section, key and value
\* is as before.
C9_SetSuccess ==
  (/\ last.op = "Set"
   /\ ~before.nil
   /\ last.a[1] \in DOMAIN before.m
   /\ last.a[2] \in DOMAIN before.m[last.a[1]]) =>
    LET s == last.a[1]
        key == last.a[2]
    IN /\ last.err = NoErr
       /\ GetResult(sections, s, key) = [ret |-> last.a[3], err |-> NoErr]
       /\ SameNames(sections, before)
       /\ \A t \in DOMAIN before.m : \A k \in DOMAIN before.m[t] :
            <<t, k>> # <<s, key>> => sections.m[t][k] = before.m[t][k]

\* a successful Set that changed a value in a section with another key
C9_Witness ==
  /\ last.op = "Set"
  /\ last.err = NoErr
  /\ Cardinality(DOMAIN before.m[last.a[1]]) > 1
  /\ sections # before

----------------------------------------------------------------------------
(* C10 *)

\* C10: String() fails with NullReference on a nil map and with HasNoData
\* on a map without sections, with empty text in both cases, and returns no
\* error when the Document has a section, even if every section is empty.
C10_StringErrors ==
  last.op = "String" =>
    /\ before.nil => (last.err = ErrNullReference /\ last.ret = <<>>)
    /\ (~before.nil /\ DOMAIN before.m = {}) =>
         (last.err = ErrHasNoData /\ last.ret = <<>>)
    /\ (~before.nil /\ DOMAIN before.m # {}) => last.err = NoErr

\* String() without error on a Document whose sections are all empty
C10_Witness ==
  /\ last.op = "String"
  /\ last.err = NoErr
  /\ DOMAIN before.m # {}
  /\ \A s \in DOMAIN before.m : DOMAIN before.m[s] = {}

----------------------------------------------------------------------------
(* C11 *)

\* C11: GetSectionNames() returns every section name of the Document
\* exactly once and nothing else, in strictly ascending order; on a nil map
\* and on a map without sections it returns the empty list.
C11_SectionNamesSorted ==
  last.op = "GetSectionNames" =>
    LET names == last.ret IN
      /\ last.err = NoErr
      /\ {names[i] : i \in 1..Len(names)} = DOMAIN before.m
      /\ Len(names) = Cardinality(DOMAIN before.m)
      /\ \A i \in 1..(Len(names) - 1) : StrLess(names[i], names[i + 1])
      /\ (before.nil \/ DOMAIN before.m = {}) => names = <<>>

\* GetSectionNames() on a Document with two sections
C11_Witness ==
  /\ last.op = "GetSectionNames"
  /\ Len(last.ret) = 2

----------------------------------------------------------------------------
(* C12 *)

\* C12: spaces added inside the brackets or around a section-header line,
\* or around the key, the '=' or the value of a property line, do not
\* change the Document LoadFromString produces and do not turn a
\* successful parse into an error.
C12_WhitespaceInvariance ==
  (Loaded /\ last.from = "padded" /\ loaded.has) =>
    /\ sections = LoadedDocument
    /\ loaded.err = NoErr => last.err = NoErr

----------------------------------------------------------------------------
(* C18 *)

\* C18: a zero-length line or a comment line inserted into (or, read the
\* other way, deleted from) an input at any position changes neither the
\* Document LoadFromString leaves nor the error it returns.
C18_SkippedLinesAreNoOps ==
  (Loaded /\ last.from = "inserted" /\ loaded.has) =>
    /\ last.err = loaded.err
    /\ sections = LoadedDocument

\* a blank or comment line between a header and a property that is stored
C18_Witness ==
  /\ Loaded
  /\ last.from = "inserted"
  /\ loaded.has
  /\ last.err = NoErr
  /\ LET ls == LastLines IN
       \E i \in 2..(Len(ls) - 1) :
         /\ ls[i] \in SkippedLines
         /\ IsHeader(ls, i - 1)
         /\ IsProperty(ls, i + 1)
         /\ DOMAIN sections.m[parseSection(ls[i - 1]).name] # {}

----------------------------------------------------------------------------
(* C13 *)

\* the values a Document holds
ValuesOf(d) == UNION {{d.m[x][k] : k \in DOMAIN d.m[x]} : x \in DOMAIN d.m}

\* C13: the Document a LoadFromString(T) leaves is the one the lines of T
\* describe (up to the first offending line), whatever the handle held
\* before: nothing of an earlier load or an earlier Set survives unless T
\* produces it.
C13_LoadReplaces ==
  (Loaded /\ last.err # Panic) =>
    sections = [nil |-> FALSE,
                m |-> DocumentOf(LastLines, Processed(LastLines))]

\* a load on a handle that held a value written by Set, which is gone after
C13_Witness ==
  /\ Loaded
  /\ last.err = NoErr
  /\ <<"c">> \in ValuesOf(before)
  /\ DOMAIN sections.m # {}
  /\ <<"c">> \notin ValuesOf(sections)

----------------------------------------------------------------------------
(* C14 *)

\* a non-blank line that is not a section header, does not begin with ';'
\* and does not contain exactly one '='
StatedUnsupported(line) ==
  /\ Len(line) > 0
  /\ StatedLineType(line) # sectionLine
  /\ line[1] # ";"
  /\ Count(line, "=") # 1

\* such a line is reached with no error raised by an earlier line
ReachesUnsupported(ls) ==
  \E n \in 1..Len(ls) :
    /\ StatedUnsupported(ls[n])
    /\ \A m \in 1..(n - 1) : LineError(ls, m) = NoErr

\* C14: LoadFromString returns SyntaxError exactly when, with no error
\* raised by an earlier line, it reaches a non-blank line that is not a
\* section header, does not begin with ';' and does not contain exactly one
\* '='.
C14_SyntaxErrorExactly ==
  Loaded => (last.err = ErrSyntaxError <=> ReachesUnsupported(LastLines))

----------------------------------------------------------------------------
(* C17 *)

\* C17: LoadFromString called on a handle whose sections map is the nil map
\* returns ErrNullReference and loads nothing.
C17_LoadOnNilHandle ==
  (Loaded /\ before.nil) =>
    /\ last.err = ErrNullReference
    /\ sections = before

----------------------------------------------------------------------------
(* C19 *)

\* header line i is the last header that decodes to its name
LastHeaderOfName(ls, i) ==
  \A j \in (i + 1)..Len(ls) :
    IsHeader(ls, j) => parseSection(ls[j]).name # parseSection(ls[i]).name

\* the line of the next header after line i, one past the end when none
NextHeader(ls, i) ==
  Min({j \in (i + 1)..Len(ls) : IsHeader(ls, j)} \cup {Len(ls) + 1})

\* the properties of lines lo..hi, the last line of a key giving its value
PropertiesOf(ls, lo, hi) ==
  LET props == {j \in lo..hi : IsProperty(ls, j)}
      keys == {parseProperity(ls[j]).key : j \in props}
      lastOf(key) == Max({j \in props : parseProperity(ls[j]).key = key})
  IN [key \in keys |-> parseProperity(ls[lastOf(key)]).value]

\* C19: a repeated section header resets the section: after a successful
\* parse a section holds exactly the properties between the last header
\* for its name and the next header, and the Document has one entry per
\* name.
C19_RepeatedHeaderResets ==
  (Loaded /\ last.err = NoErr) =>
    LET ls == LastLines
        hdrs == {i \in 1..Len(ls) : IsHeader(ls, i)}
        lasts == {i \in hdrs : LastHeaderOfName(ls, i)}
    IN /\ \A i \in lasts :
            /\ parseSection(ls[i]).name \in DOMAIN sections.m
            /\ sections.m[parseSection(ls[i]).name] =
                 PropertiesOf(ls, i + 1, NextHeader(ls, i) - 1)
       /\ DOMAIN sections.m = {parseSection(ls[i]).name : i \in lasts}
       /\ Cardinality(DOMAIN sections.m) = Cardinality(lasts)

\* a header repeated after a property of its section: the property is gone
C19_Witness ==
  /\ Loaded
  /\ last.err = NoErr
  /\ LET ls == LastLines IN
       \E i, j, k \in 1..Len(ls) :
         /\ i < j /\ j < k
         /\ IsHeader(ls, i) /\ IsProperty(ls, j) /\ IsHeader(ls, k)
         /\ parseSection(ls[i]).name = parseSection(ls[k]).name
         /\ LastHeaderOfName(ls, k)
         /\ sections.m[parseSection(ls[k]).name] = EmptyMap

----------------------------------------------------------------------------
(* C20 *)

\* the last line processed without error is a property line
LastIsProperty(ls) == Processed(ls) >= 1 /\ IsProperty(ls, Processed(ls))

\* C20: a successfully decoded property line writes key -> value into the
\* section of the most recently processed header only, overwriting an
\* earlier value of the key: the Document after the line is the Document
\* of the lines before it with that one entry set, every other section and
\* every other key as they were.
C20_PropertyWrite ==
  (Loaded /\ last.err # Panic /\ LastIsProperty(LastLines)) =>
    LET ls == LastLines
        k == Processed(ls)
        prev == DocumentOf(ls, k - 1)
        cur == CurrentBefore(ls, k)
        p == parseProperity(ls[k])
    IN /\ cur \in DOMAIN prev
       /\ DOMAIN sections.m = DOMAIN prev
       /\ \A s \in DOMAIN prev \ {cur} : sections.m[s] = prev[s]
       /\ DOMAIN sections.m[cur] = DOMAIN prev[cur] \cup {p.key}
       /\ sections.m[cur][p.key] = p.value
       /\ \A key \in DOMAIN prev[cur] \ {p.key} :
            sections.m[cur][key] = prev[cur][key]

\* a property line that overwrites the value an earlier line gave its key
C20_Witness ==
  /\ Loaded
  /\ last.err = NoErr
  /\ LastIsProperty(LastLines)
  /\ LET ls == LastLines
         k == Processed(ls)
         prev == DocumentOf(ls, k - 1)
         cur == CurrentBefore(ls, k)
         p == parseProperity(ls[k])
     IN /\ p.key \in DOMAIN prev[cur]
        /\ prev[cur][p.key] # p.value
        /\ sections.m[cur][p.key] = p.value

----------------------------------------------------------------------------
(* C15 *)

\* the last call was LoadFromFile of a file that exists
LoadedFile == last.op = "LoadFromFile" /\ files[last.a[1]].exists

----------------------------------------------------------------------------
(* C16 *)

\* C16: after SaveToFile(p) on an initialized Document returns nil (the
\* Document has sections) or HasNoData (it has none), file p exists and
\* loading its content gives a Document whose mapping equals the saved one;
\* in the HasNoData case the file is empty.
C16_SaveRoundTrip ==
  (last.op = "SaveToFile" /\ ~before.nil /\ last.err \in {NoErr, ErrHasNoData}) =>
    LET f == files[last.a[1]] IN
      /\ last.err = NoErr <=> DOMAIN before.m # {}
      /\ f.exists
      /\ LoadFromFileResult(New, f).sections.m = before.m
      /\ last.err = ErrHasNoData => f.data = <<>>

----------------------------------------------------------------------------
(* C21 *)

\* the key of a property line as the specification decodes it: the text
\* before the '=' without surrounding whitespace
StatedKey(line) == TrimSpace(Slice(line, 0, Index(line, "=")))

\* line n is reached: no line before it raised an error
Reached(ls, n) == \A m \in 1..(n - 1) : LineError(ls, m) = NoErr

\* C21: on a property line the decode error takes precedence over the
\* global-property check: a property line with an empty key reached with
\* no current section makes LoadFromString return EmptyKey, and
\* GlobalProperty is returned only for a property line that decodes to a
\* key.
C21_DecodeErrorFirst ==
  (Loaded /\ last.err # Panic) =>
    LET ls == LastLines IN
      \A n \in 1..Len(ls) :
        (Reached(ls, n) /\ IsProperty(ls, n)) =>
          /\ (StatedKey(ls[n]) = <<>> /\ CurrentBefore(ls, n) = <<>>) =>
               last.err = ErrEmptyKey
          /\ (LineError(ls, n) # NoErr /\ last.err = ErrGlobalProperity) =>
               StatedKey(ls[n]) # <<>>

----------------------------------------------------------------------------
(* C22 *)

\* C22: LoadFromString returns GlobalProperty exactly when a property line
\* that decodes to a key is reached and no section-header line was
\* processed before it: after a header accepted without error no property
\* line gives GlobalProperty.
C22_GlobalPropertyExactly ==
  (Loaded /\ last.err # Panic) =>
    LET ls == LastLines IN
      last.err = ErrGlobalProperity <=>
        \E n \in 1..Len(ls) :
          /\ Reached(ls, n)
          /\ IsProperty(ls, n)
          /\ StatedKey(ls[n]) # <<>>
          /\ HeadersBefore(ls, n) = {}

----------------------------------------------------------------------------
(* C23 *)

----------------------------------------------------------------------------
(* C24 *)

\* the last call read the Document, or was a LoadFromFile that failed to
\* read its file
ReadOnlyCall ==
  \/ last.op \in {"Get", "GetSections", "GetSectionNames", "String"}
  \/ last.op = "LoadFromFile" /\ last.err = ErrInvalidFilePath

\* C24: Get, GetSections, GetSectionNames and String, whether they succeed
\* or fail, and a LoadFromFile that returns InvalidFilePath leave the
\* handle's map as it was: nil or not, with the same sections, keys and
\* values.
C24_QueriesReadOnly == ReadOnlyCall => sections = before

\* a LoadFromFile that fails on a handle holding a property
C24_Witness ==
  /\ last.op = "LoadFromFile"
  /\ last.err = ErrInvalidFilePath
  /\ \E s \in DOMAIN sections.m : DOMAIN sections.m[s] # {}

====
